---- MODULE Spec2Model ----
(***************************************************************************)
(* Model of stat-collector (src/main.go): one run of main, from argument   *)
(* handling over the roster load and the document-store connection to the  *)
(* per-member loop (two Graylog queries, aggregation, insert if active).   *)
(*                                                                         *)
(* Abstractions, stated once:                                              *)
(*  - strings that the code parses are sequences of one-character strings; *)
(*  - time.Time is a count of seconds since 1970-01-01T00:00:00 UTC and    *)
(*    time.Duration a count of seconds; the input alphabet has no          *)
(*    sub-second units and no fractions; every Time is rendered in UTC;    *)
(*  - float64 gigabyte values are exact rationals [num, den] in lowest     *)
(*    terms (rounding of float64 is abstracted);                           *)
(*  - a *float64 is a record [present, v]; nil is Absent;                  *)
(*  - an HTTP response body is a sequence of JSON tokens.                  *)
(***************************************************************************)
EXTENDS Integers, Sequences, FiniteSets, TLC

\* ---------------------------------------------------------------- bounds
MaxMembers == 2

\* ------------------------------------------------------- character helpers
Digits == <<"0", "1", "2", "3", "4", "5", "6", "7", "8", "9">>

IsDigit(c) == \E i \in 1..10 : Digits[i] = c

DigitVal(c) == (CHOOSE i \in 1..10 : Digits[i] = c) - 1

Rest(s) == SubSeq(s, 2, Len(s))

\* leadingInt of time/format.go: consumes leading digits, returns the value
\* and the remainder
RECURSIVE leadingIntAcc(_, _)
leadingIntAcc(x, s) ==
    IF s # <<>> /\ IsDigit(Head(s))
    THEN leadingIntAcc(x * 10 + DigitVal(Head(s)), Rest(s))
    ELSE [x |-> x, rem |-> s]

leadingInt(s) == leadingIntAcc(0, s)

\* the unit of a duration group: the characters up to the next digit
RECURSIVE unitLen(_)
unitLen(s) ==
    IF s = <<>> \/ IsDigit(Head(s)) THEN 0 ELSE 1 + unitLen(Rest(s))

\* unitMap of time/format.go, in seconds
unitMap(u) ==
    CASE u = <<"h">> -> 3600
      [] u = <<"m">> -> 60
      [] u = <<"s">> -> 1
      [] OTHER -> 0

IsUnit(u) == u \in {<<"h">>, <<"m">>, <<"s">>}

\* the loop of time.ParseDuration over the groups digits+unit
RECURSIVE parseGroups(_, _)
parseGroups(d, s) ==
    IF s = <<>> THEN [err |-> FALSE, d |-> d]
    ELSE IF ~IsDigit(Head(s)) THEN [err |-> TRUE, d |-> 0]
    ELSE LET li == leadingInt(s)
             n  == unitLen(li.rem)
             u  == SubSeq(li.rem, 1, n)
         IN  IF n = 0 \/ ~IsUnit(u) THEN [err |-> TRUE, d |-> 0]
             ELSE parseGroups(d + li.x * unitMap(u),
                              SubSeq(li.rem, n + 1, Len(li.rem)))

\* time.ParseDuration: [-+]?(digits unit)+, "0" alone is the zero duration;
\* on error the returned duration is 0
ParseDuration(s) ==
    LET neg  == s # <<>> /\ Head(s) = "-"
        sgn  == s # <<>> /\ Head(s) \in {"-", "+"}
        body == IF sgn THEN Rest(s) ELSE s
    IN  IF body = <<"0">> THEN [err |-> FALSE, d |-> 0]
        ELSE IF body = <<>> THEN [err |-> TRUE, d |-> 0]
        ELSE LET r == parseGroups(0, body)
             IN  IF r.err THEN r
                 ELSE [err |-> FALSE, d |-> IF neg THEN 0 - r.d ELSE r.d]

\* ------------------------------------------------------------ civil dates
isLeap(y) == (y % 4 = 0) /\ ((y % 100 # 0) \/ (y % 400 = 0))

daysIn(m, y) ==
    IF m = 2 THEN (IF isLeap(y) THEN 29 ELSE 28)
    ELSE IF m \in {4, 6, 9, 11} THEN 30 ELSE 31

\* days since 1970-01-01 of a civil date (proleptic Gregorian)
daysFromCivil(y0, m, d) ==
    LET y   == IF m <= 2 THEN y0 - 1 ELSE y0
        era == y \div 400
        yoe == y - era * 400
        mp  == IF m > 2 THEN m - 3 ELSE m + 9
        doy == (153 * mp + 2) \div 5 + d - 1
        doe == yoe * 365 + yoe \div 4 - yoe \div 100 + doy
    IN  era * 146097 + doe - 719468

\* civil date of a day count since 1970-01-01
civilFromDays(z0) ==
    LET z   == z0 + 719468
        era == z \div 146097
        doe == z - era * 146097
        yoe == (doe - doe \div 1460 + doe \div 36524 - doe \div 146096) \div 365
        doy == doe - (365 * yoe + yoe \div 4 - yoe \div 100)
        mp  == (5 * doy + 2) \div 153
        d   == doy - (153 * mp + 2) \div 5 + 1
        m   == IF mp < 10 THEN mp + 3 ELSE mp - 9
        y   == yoe + era * 400 + (IF m <= 2 THEN 1 ELSE 0)
    IN  [Y |-> y, M |-> m, D |-> d]

\* stands for time.Time{} (year 1), kept inside 32-bit integers
ZeroTime == 0 - 2000000000

AllDigits(s) == \A i \in 1..Len(s) : IsDigit(s[i])

\* time.Parse("2006-01-2T15:04:05", value): 4-digit year, 2-digit month,
\* 1- or 2-digit day, 2-digit hour, minute, second, literal separators,
\* range checks, no trailing text; on error the zero Time is returned
TimeParse(v) ==
    LET bad == [err |-> TRUE, t |-> ZeroTime]
    IN  IF Len(v) < 8 \/ ~AllDigits(SubSeq(v, 1, 4)) \/ v[5] # "-"
           \/ ~AllDigits(SubSeq(v, 6, 7)) \/ v[8] # "-"
        THEN bad
        ELSE
        LET y    == leadingInt(SubSeq(v, 1, 4)).x
            mo   == leadingInt(SubSeq(v, 6, 7)).x
            r1   == SubSeq(v, 9, Len(v))
            dl   == IF Len(r1) >= 2 /\ IsDigit(r1[1]) /\ IsDigit(r1[2]) THEN 2
                    ELSE IF Len(r1) >= 1 /\ IsDigit(r1[1]) THEN 1 ELSE 0
            dd   == leadingInt(SubSeq(r1, 1, dl)).x
            r2   == SubSeq(r1, dl + 1, Len(r1))
        IN  IF dl = 0 \/ Len(r2) # 9 \/ r2[1] # "T"
               \/ ~AllDigits(SubSeq(r2, 2, 3)) \/ r2[4] # ":"
               \/ ~AllDigits(SubSeq(r2, 5, 6)) \/ r2[7] # ":"
               \/ ~AllDigits(SubSeq(r2, 8, 9))
            THEN bad
            ELSE
            LET hh == leadingInt(SubSeq(r2, 2, 3)).x
                mi == leadingInt(SubSeq(r2, 5, 6)).x
                ss == leadingInt(SubSeq(r2, 8, 9)).x
            IN  IF mo < 1 \/ mo > 12 \/ dd < 1 \/ dd > daysIn(mo, y)
                   \/ hh > 23 \/ mi > 59 \/ ss > 59
                THEN bad
                ELSE [err |-> FALSE,
                      t   |-> daysFromCivil(y, mo, dd) * 86400
                              + hh * 3600 + mi * 60 + ss]

\* Time.Format("2006-01-2T15:04:05.000Z"): the civil fields that the layout
\* prints (the day unpadded, milliseconds always 000 at whole seconds)
TimeFormat(t) ==
    LET days == t \div 86400
        sod  == t - days * 86400
        c    == civilFromDays(days)
    IN  <<c.Y, c.M, c.D, sod \div 3600, (sod % 3600) \div 60, sod % 60>>

\* Time.Add
TimeAdd(t, d) == t + d

MidnightSuffix == <<"T", "0", "0", ":", "0", "0", ":", "0", "0">>

\* ------------------------------------------------- float64 gigabyte values
RECURSIVE GCD(_, _)
GCD(a, b) == IF b = 0 THEN a ELSE GCD(b, a % b)

Norm(n, d) == LET g == GCD(n, d) IN [num |-> n \div g, den |-> d \div g]

FZero == [num |-> 0, den |-> 1]

\* float64 addition
FAdd(a, b) ==
    LET l == (a.den \div GCD(a.den, b.den)) * b.den
    IN  Norm(a.num * (l \div a.den) + b.num * (l \div b.den), l)

BytesPerGb == 1000000000

\* bytesToGb: bytes / 1000000000
bytesToGb(bytes) == Norm(bytes, BytesPerGb)

\* *float64: nil or a pointer to a value
Absent == [present |-> FALSE, v |-> FZero]

Present(x) == [present |-> TRUE, v |-> x]

\* ------------------------------------------------------------ JSON bodies
P(c) == [t |-> "punct", n |-> 0, s |-> c]

S(x) == [t |-> "str", n |-> 0, s |-> x]

N(b) == [t |-> "num", n |-> b, s |-> ""]

Null == [t |-> "null", n |-> 0, s |-> ""]

NaNToZero == N(0)

\* bytes.Replace(bodyText, `"NaN"`, `null`, -1): every string token NaN
\* becomes the literal null
NaNReplacement == Null

bytesReplaceNaN(body) ==
    [i \in 1..Len(body) |-> IF body[i] = S("NaN") THEN NaNReplacement
                            ELSE body[i]]

IsValue(tok) == tok.t \in {"num", "str", "null"}

\* the members of a JSON object: key : value (, key : value)*
RECURSIVE validPairs(_)
validPairs(ts) ==
    /\ Len(ts) >= 3
    /\ ts[1].t = "str" /\ ts[2] = P(":") /\ IsValue(ts[3])
    /\ \/ Len(ts) = 3
       \/ /\ Len(ts) > 4 /\ ts[4] = P(",")
          /\ validPairs(SubSeq(ts, 5, Len(ts)))

\* checkValid of encoding/json for the bodies of the model: one object
validJSON(ts) ==
    /\ Len(ts) >= 2 /\ ts[1] = P("{") /\ ts[Len(ts)] = P("}")
    /\ Len(ts) = 2 \/ validPairs(SubSeq(ts, 2, Len(ts) - 1))

\* decoding into GraylogRes{Sum *float64 `json:"sum"`}: a number sets Sum,
\* null leaves it nil, a string is a type error that leaves it nil; other
\* keys are ignored; the last "sum" member wins
RECURSIVE decodePairs(_, _)
decodePairs(ts, acc) ==
    IF Len(ts) < 3 THEN acc
    ELSE LET v   == ts[3]
             nxt == IF ts[1] # S("sum") THEN acc
                    ELSE IF v.t = "num"
                         THEN [err |-> acc.err, Sum |-> Present(v.n)]
                    ELSE IF v.t = "null" THEN acc
                    ELSE [err |-> TRUE, Sum |-> acc.Sum]
         IN  decodePairs(SubSeq(ts, 5, Len(ts)), nxt)

\* json.Unmarshal(bodyText, &graylogRes): a syntax error is reported
\* before anything is decoded
jsonUnmarshal(ts) ==
    IF ~validJSON(ts) THEN [err |-> TRUE, Sum |-> Absent]
    ELSE decodePairs(SubSeq(ts, 2, Len(ts) - 1),
                     [err |-> FALSE, Sum |-> Absent])

\* ------------------------------------------------------------ callGraylog
\* lines 73-81: the phrase of the query for a direction
directionString(direction) ==
    IF direction = "up" THEN "uploaded to exit"
    ELSE IF direction = "down" THEN "downloaded from exit"
    ELSE "invalid direction argument"

\* lines 83-88: the query parameters of the request
FromParamIsTo(settings) == TimeFormat(settings.To)

FromParam(settings) == TimeFormat(settings.From)

graylogParams(settings, direction, wgKey) ==
    [query |-> <<wgKey, directionString(direction)>>,
     from  |-> FromParam(settings),
     to    |-> TimeFormat(settings.To)]

\* lines 100-109: whether a failed round trip ends the process
TransportIgnored(transportErr) == FALSE

TransportFatal(transportErr) == transportErr

\* lines 100-129: the answer of the log service turned into a *float64.
\* resp is [transportErr, body]; fatal is log.Fatal, printed is the
\* fmt.Println of the Unmarshal error
callGraylog(resp) ==
    IF TransportFatal(resp.transportErr)
    THEN [fatal |-> TRUE, printed |-> FALSE, sum |-> Absent]
    ELSE LET graylogRes == jsonUnmarshal(bytesReplaceNaN(resp.body))
         IN  [fatal   |-> FALSE,
              printed |-> graylogRes.err,
              sum     |-> IF ~resp.transportErr /\ graylogRes.Sum.present
                          THEN Present(bytesToGb(graylogRes.Sum.v))
                          ELSE Absent]

\* ------------------------------------------------------- getBandwidthSums
\* lines 163-182 with the nil of an absent direction replaced by a zero
sumsCoerced(sumDownloaded, sumUploaded) ==
    LET d == IF sumDownloaded.present THEN sumDownloaded.v ELSE FZero
        u == IF sumUploaded.present THEN sumUploaded.v ELSE FZero
    IN  [Up    |-> Present(u),
         Down  |-> Present(d),
         Total |-> IF sumDownloaded.present \/ sumUploaded.present
                   THEN Present(FAdd(FAdd(FZero, d), u)) ELSE Absent]

\* lines 163-182: the activity decision and the total of the two counts
sums(sumDownloaded, sumUploaded) ==
    LET afterDown == IF sumDownloaded.present
                     THEN [userIsActive |-> TRUE,
                           sumTotal |-> FAdd(FZero, sumDownloaded.v)]
                     ELSE [userIsActive |-> FALSE, sumTotal |-> FZero]
        afterUp   == IF sumUploaded.present
                     THEN [userIsActive |-> TRUE,
                           sumTotal |-> FAdd(afterDown.sumTotal, sumUploaded.v)]
                     ELSE afterDown
    IN  [Up    |-> sumUploaded,
         Down  |-> sumDownloaded,
         Total |-> IF afterUp.userIsActive THEN Present(afterUp.sumTotal)
                   ELSE Absent]

\* ------------------------------------------------------------------ inputs
DurationArgs ==
    { <<"1", "h", "3", "0", "m">>, <<"0">>, <<"2", "4">> }

DateArgs ==
    { <<"2", "0", "2", "4", "-", "0", "1", "-", "0", "2">>,
      <<"2", "0", "2", "4", "-", "0", "2", "-", "3", "0">> }

\* os.Args[1:]
ArgLists ==
    {<<>>} \cup { <<d>> : d \in DurationArgs }
           \cup { <<d, e>> : d \in DurationArgs, e \in DateArgs }

\* the readings of time.Now(): 2024-03-01T12:00:00Z
NowValues == { daysFromCivil(2024, 3, 1) * 86400 + 43200 }

Members ==
    << [Name |-> <<" ", "a", " ">>, WGKey |-> "k1"],
       [Name |-> <<"b">>, WGKey |-> "k2"] >>

\* the rosters: up to MaxMembers records, the two members alternating,
\* starting with either
Rosters ==
    { [i \in 1..n |-> Members[((i + o) % 2) + 1]] :
          n \in 0..MaxMembers, o \in {0, 1} }

ByteValues == { 0, 500000000 }

BodyNum(b) == << P("{"), S("sum"), P(":"), N(b), P("}") >>

BodyNaN ==
    << P("{"), S("count"), P(":"), N(0), P(","),
       S("sum"), P(":"), S("NaN"), P("}") >>

BodyGarbage == << P("<"), S("html"), P(">") >>

Bodies == { BodyNum(b) : b \in ByteValues } \cup { BodyNaN, BodyGarbage }

NoResp == [transportErr |-> FALSE, body |-> <<>>]

Responses ==
    { [transportErr |-> TRUE, body |-> <<>>] }
    \cup { [transportErr |-> FALSE, body |-> b] : b \in Bodies }

\* ------------------------------------------------------------------- state
VARIABLES
    args,           \* os.Args[1:]
    now,            \* the clock reading time.Now() returns
    pc,             \* position of main
    settings,       \* Settings.From, .To, .Duration
    meshMembers,    \* the roster returned by getMeshMembers
    idx,            \* iteration of the range loop, 1-based
    sumDownloaded,  \* locals of getBandwidthSums / main
    sumUploaded,
    total,
    inserted,       \* documents stored in the collection, in order
    trace           \* the calls made to the three services, in order

vars == << args, now, pc, settings, meshMembers, idx, sumDownloaded,
           sumUploaded, total, inserted, trace >>

NoParams == [query |-> <<"", "">>, from |-> <<>>, to |-> <<>>]

Ev(op, member, dir, params, resp, failed, result) ==
    [op |-> op, member |-> member, dir |-> dir, params |-> params,
     resp |-> resp, failed |-> failed, result |-> result]

ZeroSettings == [From |-> ZeroTime, To |-> ZeroTime, Duration |-> 0]

Init ==
    /\ args \in ArgLists
    /\ now \in NowValues
    /\ pc = "start"
    /\ settings = ZeroSettings
    /\ meshMembers = <<>>
    /\ idx = 0
    /\ sumDownloaded = Absent
    /\ sumUploaded = Absent
    /\ total = Absent
    /\ inserted = <<>>
    /\ trace = <<>>

\* ----------------------------------------------------------------- main
\* lines 187-196: duration, to, from and the err that line 198 tests; the
\* assignment of line 193 overwrites the err of line 187
mainArgs(a, clock) ==
    LET pd == ParseDuration(a[1])
        tp == IF Len(a) = 1 THEN [err |-> pd.err, t |-> clock]
              ELSE TimeParse(a[2] \o MidnightSuffix)
    IN  [err      |-> tp.err,
         duration |-> pd.d,
         to       |-> tp.t,
         from     |-> TimeAdd(tp.t, 0 - pd.d)]

\* lines 185-229
ParseArgs ==
    /\ pc = "start"
    /\ IF args = <<>>
       THEN /\ pc' = "panic"    \* os.Args[1]: index out of range
            /\ UNCHANGED settings
       ELSE LET r == mainArgs(args, now)
            IN  IF r.err
                THEN /\ pc' = "fatal"
                     /\ UNCHANGED settings
                ELSE /\ pc' = "getMeshMembers"
                     /\ settings' = [From |-> r.from, To |-> r.to,
                                     Duration |-> r.duration]
    /\ UNCHANGED << args, now, meshMembers, idx, sumDownloaded, sumUploaded,
                    total, inserted, trace >>

rosterErrIgnored(err) == FALSE

\* lines 232-234
rosterFatal(err) == err

\* line 242: the element the i-th iteration of range visits
rangeIndexReversed(members, i) == Len(members) - i + 1

rangeIndex(members, i) == i

\* line 242: the loop condition
loopPc(members, i) == IF i <= Len(members) THEN "callDown" ELSE "done"

\* lines 231-234, getMeshMembers 131-145; a failed listing may have filled
\* part of the slice
GetMeshMembers ==
    /\ pc = "getMeshMembers"
    /\ \E r \in Rosters, err \in BOOLEAN :
         /\ meshMembers' = r
         /\ trace' = Append(trace,
                Ev("roster", 0, "", NoParams, NoResp, err, Absent))
         /\ pc' = IF rosterFatal(err) THEN "fatal" ELSE "getBWUPCollection"
    /\ UNCHANGED << args, now, settings, idx, sumDownloaded, sumUploaded,
                    total, inserted >>

\* lines 236-239, getBWUPCollection 147-157
GetBWUPCollection ==
    /\ pc = "getBWUPCollection"
    /\ \E err \in BOOLEAN :
         /\ trace' = Append(trace,
                Ev("connect", 0, "", NoParams, NoResp, err, Absent))
         /\ IF err
            THEN pc' = "fatal" /\ UNCHANGED idx
            ELSE pc' = loopPc(meshMembers, 1) /\ idx' = 1
    /\ UNCHANGED << args, now, settings, meshMembers, sumDownloaded,
                    sumUploaded, total, inserted >>

\* line 160: callGraylog(settings, "down", member.Fields.WGKey)
CallDown ==
    /\ pc = "callDown"
    /\ \E resp \in Responses :
         LET m == rangeIndex(meshMembers, idx)
             r == callGraylog(resp)
         IN  /\ trace' = Append(trace,
                    Ev("fetch", m, "down",
                       graylogParams(settings, "down", meshMembers[m].WGKey),
                       resp, r.fatal, r.sum))
             /\ IF r.fatal
                THEN pc' = "fatal" /\ UNCHANGED sumDownloaded
                ELSE pc' = "callUp" /\ sumDownloaded' = r.sum
    /\ UNCHANGED << args, now, settings, meshMembers, idx, sumUploaded,
                    total, inserted >>

\* lines 161-183: callGraylog(settings, "up", ...) and the aggregation
CallUp ==
    /\ pc = "callUp"
    /\ \E resp \in Responses :
         LET m == rangeIndex(meshMembers, idx)
             r == callGraylog(resp)
             s == sums(sumDownloaded, r.sum)
         IN  /\ trace' = Append(trace,
                    Ev("fetch", m, "up",
                       graylogParams(settings, "up", meshMembers[m].WGKey),
                       resp, r.fatal, r.sum))
             /\ IF r.fatal
                THEN /\ pc' = "fatal"
                     /\ UNCHANGED << sumDownloaded, sumUploaded, total >>
                ELSE /\ pc' = "persist"
                     /\ sumUploaded' = s.Up
                     /\ sumDownloaded' = s.Down
                     /\ total' = s.Total
    /\ UNCHANGED << args, now, settings, meshMembers, idx, inserted >>

\* strings.TrimSpace
RECURSIVE TrimLeft(_)
TrimLeft(s) == IF s # <<>> /\ Head(s) = " " THEN TrimLeft(Rest(s)) ELSE s

RECURSIVE TrimRight(_)
TrimRight(s) ==
    IF s # <<>> /\ s[Len(s)] = " " THEN TrimRight(SubSeq(s, 1, Len(s) - 1))
    ELSE s

TrimSpace(s) == TrimRight(TrimLeft(s))

\* lines 250-258
bwupOf(st, member, up, down, tot) ==
    [Name |-> TrimSpace(member.Name), From |-> st.From, To |-> st.To,
     Duration |-> st.Duration, Up |-> up, Down |-> down, Total |-> tot]

persistNonZero(tot) == tot.present /\ tot.v.num > 0

\* line 246: total != nil
shouldPersist(tot) == tot.present

insertErrIgnored(err) == FALSE

\* lines 265-267
insertFatal(err) == err

\* lines 246-269: the insert of an active member and the step of the loop.
\* A failed InsertOne stores nothing.
Persist ==
    /\ pc = "persist"
    /\ LET m == rangeIndex(meshMembers, idx)
       IN  IF shouldPersist(total)
           THEN \E err \in BOOLEAN :
                  /\ trace' = Append(trace,
                         Ev("insert", m, "", NoParams, NoResp, err, total))
                  /\ inserted' =
                         IF err THEN inserted
                         ELSE Append(inserted,
                                     bwupOf(settings, meshMembers[m],
                                            sumUploaded, sumDownloaded, total))
                  /\ IF insertFatal(err)
                     THEN pc' = "fatal" /\ UNCHANGED idx
                     ELSE pc' = loopPc(meshMembers, idx + 1) /\ idx' = idx + 1
           ELSE /\ pc' = loopPc(meshMembers, idx + 1)
                /\ idx' = idx + 1
                /\ UNCHANGED << trace, inserted >>
    /\ UNCHANGED << args, now, settings, meshMembers, sumDownloaded,
                    sumUploaded, total >>

Next ==
    \/ ParseArgs
    \/ GetMeshMembers
    \/ GetBWUPCollection
    \/ CallDown
    \/ CallUp
    \/ Persist

Spec == Init /\ [][Next]_vars

TypeOK ==
    /\ pc \in {"start", "panic", "fatal", "getMeshMembers",
               "getBWUPCollection", "callDown", "callUp", "persist", "done"}
    /\ idx \in 0..(MaxMembers + 1)
    /\ Len(inserted) <= MaxMembers

\* ------------------------------------------------------ reading the trace
Events == 1..Len(trace)

IsFetch(k, j, d) ==
    trace[k].op = "fetch" /\ trace[k].member = j /\ trace[k].dir = d

IsInsert(k, j) == trace[k].op = "insert" /\ trace[k].member = j

InsertEvents(j) == { k \in Events : IsInsert(k, j) }

\* callGraylog returned for both directions of member j
Fetched(j) ==
    \A d \in {"down", "up"} :
        \E k \in Events : IsFetch(k, j, d) /\ ~trace[k].failed

\* at least one of the two returned counts of member j is present
Active(j) ==
    /\ Fetched(j)
    /\ \E k \in Events :
         /\ trace[k].op = "fetch" /\ trace[k].member = j
         /\ trace[k].result.present

\* the loop is through with member j
Processed(j) == pc = "done" \/ (pc \in {"callDown", "callUp", "persist"} /\ j < idx)

RosterIdx == 1..Len(meshMembers)

\* C1: a record is inserted for a roster member exactly once if and only if
\* the member is active; never for a member whose two counts are absent,
\* and never more than once for one member.
C1_InsertedIffActive ==
    \A j \in RosterIdx :
        /\ Cardinality(InsertEvents(j)) <= 1
        /\ InsertEvents(j) # {} => Active(j)
        /\ Processed(j) => (Active(j) <=> Cardinality(InsertEvents(j)) = 1)

C1_Witness ==
    /\ pc = "done"
    /\ \E j \in RosterIdx :
         /\ Active(j) /\ InsertEvents(j) # {}
         /\ \A k \in Events :
              (trace[k].op = "fetch" /\ trace[k].member = j)
                  => trace[k].result = Present(FZero)
    /\ \E j \in RosterIdx : Fetched(j) /\ ~Active(j) /\ InsertEvents(j) = {}

\* C2: in getBandwidthSums, Total is absent when both counts are absent;
\* otherwise Total is present and is the sum of the present counts only,
\* and Up and Down are returned exactly as fetched.
C2_TotalOfPresent ==
    pc = "persist" =>
        LET u == trace[Len(trace)].result
            d == trace[Len(trace) - 1].result
        IN  /\ sumUploaded = u
            /\ sumDownloaded = d
            /\ (~u.present /\ ~d.present) => ~total.present
            /\ (u.present \/ d.present) =>
                 /\ total.present
                 /\ total.v = IF u.present /\ d.present THEN FAdd(d.v, u.v)
                              ELSE IF u.present THEN u.v ELSE d.v

C2_Witness ==
    /\ pc = "persist"
    /\ sumUploaded.present /\ sumUploaded.v.num > 0
    /\ ~sumDownloaded.present
    /\ total = sumUploaded

Malformed ==
    /\ args # <<>>
    /\ \/ ParseDuration(args[1]).err
       \/ Len(args) = 2 /\ TimeParse(args[2] \o MidnightSuffix).err

\* C3: with a malformed duration or end-date argument the run ends in a
\* fatal exit before any network activity, whatever the other argument is.
C3_MalformedArgsFatal ==
    Malformed => /\ pc \in {"start", "fatal"}
                 /\ trace = <<>>
                 /\ inserted = <<>>

Unparseable(k) ==
    trace[k].op = "fetch" /\ ~trace[k].resp.transportErr
        /\ ~validJSON(trace[k].resp.body)

TransportFailed(k) == trace[k].op = "fetch" /\ trace[k].resp.transportErr

\* C4 as stated: any usage-fetch failure, a transport error or a body that
\* is not parseable JSON, ends the run; nothing is fetched or inserted
\* after it.
C4_AnyFetchFailureFatal ==
    \A k \in Events :
        (TransportFailed(k) \/ Unparseable(k))
            => k = Len(trace) /\ pc = "fatal"

\* C4 amended: a transport error of a usage fetch ends the run with nothing
\* fetched or inserted after it; a body that is not parseable JSON does not:
\* the count is returned absent and the run goes on.
C4_TransportFatalUnparseableAbsent ==
    \A k \in Events :
        /\ TransportFailed(k) => k = Len(trace) /\ pc = "fatal"
        /\ Unparseable(k) =>
              /\ ~trace[k].failed
              /\ ~trace[k].result.present
              /\ pc = "fatal" => k < Len(trace)

C4_Witness ==
    \E k, l \in Events :
        /\ k < l
        /\ Unparseable(k)
        /\ trace[l].op = "insert" /\ ~trace[l].failed
        /\ pc = "done"

\* the names of the active members before member j, in roster order
RECURSIVE ActiveNames(_, _)
ActiveNames(i, j) ==
    IF i >= j THEN <<>>
    ELSE (IF Active(i) THEN <<TrimSpace(meshMembers[i].Name)>> ELSE <<>>)
         \o ActiveNames(i + 1, j)

\* C5: a failed insert halts the run at once; nothing is fetched or
\* inserted for later members, and the records inserted before it are
\* exactly those of the active members preceding the failing one, in order.
C5_InsertFailureHalts ==
    \A k \in Events :
        (trace[k].op = "insert" /\ trace[k].failed) =>
            LET j == trace[k].member
            IN  /\ k = Len(trace)
                /\ pc = "fatal"
                /\ \A i \in RosterIdx :
                     (\E e \in InsertEvents(i) : ~trace[e].failed)
                         <=> (i < j /\ Active(i))
                /\ [n \in 1..Len(inserted) |-> inserted[n].Name]
                       = ActiveNames(1, j)

C5_Witness ==
    /\ Len(trace) > 0
    /\ trace[Len(trace)].op = "insert" /\ trace[Len(trace)].failed
    /\ trace[Len(trace)].member = 2
    /\ Len(inserted) = 1

SuppliedEnd ==
    IF Len(args) = 1 THEN now ELSE TimeParse(args[2] \o MidnightSuffix).t

PastArguments ==
    pc \notin {"start", "panic"} /\ (pc = "fatal" => trace # <<>>)

\* C6: in every run that gets past argument handling the window satisfies
\* To = From + Duration and Duration > 0, with To the supplied end time.
C6_WindowInvariant ==
    PastArguments =>
        /\ settings.To = settings.From + settings.Duration
        /\ settings.Duration > 0
        /\ settings.To = SuppliedEnd

\* C7: when loading the roster fails the run aborts before any member is
\* processed: no usage fetch and no insert in that run.
C7_RosterFailureAborts ==
    \A k \in Events :
        (trace[k].op = "roster" /\ trace[k].failed) =>
            /\ k = Len(trace)
            /\ pc = "fatal"
            /\ inserted = <<>>
            /\ \A e \in Events : trace[e].op \notin {"fetch", "insert"}

C7_Witness ==
    /\ pc = "fatal"
    /\ Len(trace) = 1 /\ trace[1].op = "roster" /\ trace[1].failed
    /\ Len(meshMembers) > 0

SentinelAnswer(k) ==
    /\ trace[k].op = "fetch" /\ ~trace[k].resp.transportErr
    /\ \E i \in 1..Len(trace[k].resp.body) :
         /\ i > 2
         /\ trace[k].resp.body[i] = S("NaN")
         /\ trace[k].resp.body[i - 2] = S("sum")

ZeroAnswer(k) ==
    trace[k].op = "fetch" /\ ~trace[k].resp.transportErr
        /\ trace[k].resp.body = BodyNum(0)

\* C8: a "NaN" sentinel sum is returned by callGraylog as an absent count,
\* never as a present zero; a member whose two queries answer the sentinel
\* gets no insert, a member whose two queries answer 0 gets one.
C8_SentinelIsAbsent ==
    /\ \A k \in Events : SentinelAnswer(k) => ~trace[k].result.present
    /\ \A j \in RosterIdx :
         Processed(j) =>
           /\ (\A k \in Events :
                 (trace[k].op = "fetch" /\ trace[k].member = j)
                     => SentinelAnswer(k))
                => InsertEvents(j) = {}
           /\ (\A k \in Events :
                 (trace[k].op = "fetch" /\ trace[k].member = j)
                     => ZeroAnswer(k))
                => \E e \in InsertEvents(j) :
                       trace[e].result = Present(FZero)

C8_Witness ==
    /\ pc = "done"
    /\ Len(meshMembers) = 2
    /\ \A k \in Events :
         (trace[k].op = "fetch" /\ trace[k].member = 1) => SentinelAnswer(k)
    /\ \A k \in Events :
         (trace[k].op = "fetch" /\ trace[k].member = 2) => ZeroAnswer(k)
    /\ Len(inserted) = 1
    /\ inserted[1].Total = Present(FZero)

MemberEvents == { k \in Events : trace[k].op \in {"fetch", "insert"} }

\* C9: members are processed one at a time in roster order: the fetch of
\* the down count, the fetch of the up count and the insert of a member
\* follow one another, and all come before the first fetch of the next.
C9_Sequential ==
    /\ \A k, l \in MemberEvents :
         k < l => trace[k].member <= trace[l].member
    /\ \A k \in MemberEvents :
         LET j == trace[k].member
         IN  /\ j \in RosterIdx
             /\ IsFetch(k, j, "down") =>
                   (k - 1 \in MemberEvents => trace[k - 1].member < j)
             /\ IsFetch(k, j, "up") =>
                   (k - 1 \in Events /\ IsFetch(k - 1, j, "down"))
             /\ IsInsert(k, j) =>
                   (k - 1 \in Events /\ IsFetch(k - 1, j, "up"))
             /\ pc \in {"callDown", "callUp", "persist"} => j <= idx
             /\ pc = "callDown" => j < idx

C9_Witness ==
    /\ pc = "done"
    /\ Len(meshMembers) = 2
    /\ InsertEvents(1) # {} /\ InsertEvents(2) # {}

\* the call or the record a step adds uses the window of Settings
LastFetchUsesWindow ==
    LET e == trace[Len(trace)]
    IN  e.op = "fetch" =>
           /\ e.params.from = TimeFormat(settings.From)
           /\ e.params.to = TimeFormat(settings.To)

LastRecordUsesWindow ==
    LET r == inserted[Len(inserted)]
    IN  /\ r.From = settings.From
        /\ r.To = settings.To
        /\ r.Duration = settings.Duration

\* C10: the window is computed once, before the roster is loaded, and no
\* later step changes it; every fetch is issued with that From and To and
\* every inserted record carries that From, To and Duration.
C10_WindowFixed ==
    [][ /\ pc # "start" => settings' = settings
        /\ pc = "start" => (trace = <<>> /\ inserted = <<>>)
        /\ Len(trace') > Len(trace) => LastFetchUsesWindow'
        /\ Len(inserted') > Len(inserted) => LastRecordUsesWindow' ]_vars

C10_Witness ==
    /\ pc = "done"
    /\ Len(inserted) = 2
    /\ settings.Duration > 0
    /\ inserted[1].From = settings.From /\ inserted[2].From = settings.From
====
